---- MODULE Spec2Model ----
(***************************************************************************)
(* Model of package trustedproxies (main.go): a TrustedProxies value holds *)
(* an append-only list of trusted networks; DeduceClientIP walks the       *)
(* X-Forwarded-For candidates plus the peer address backwards and stops at *)
(* the first hop that is not trusted.                                      *)
(*                                                                         *)
(* Text is a sequence of one-character strings.  The address space is      *)
(* scaled down: "a" and "b" are the two IPv4 literals (1 address bit),     *)
(* "p" and "q" are IPv6 literals (2 address bits).  A net.IP is a record   *)
(* [bytes, fam, val]; bytes is the slice length (0 for the nil IP, 4 or    *)
(* 16), fam tells whether the value is an IPv4 (or IPv4-mapped) address.   *)
(* A *net.IPNet of the trusted list is identified by its position in the   *)
(* list (0 is the nil pointer).                                            *)
(***************************************************************************)
EXTENDS Integers, Sequences, FiniteSets, TLC

VARIABLES trustedCIDRs, calls, last

vars == <<trustedCIDRs, calls, last>>

\* Most AddFromString calls made on one TrustedProxies value.
MaxAdds == 2

\* Most comma-separated items of one header value.
MaxHeaderItems == 2

(***************************************************************************)
(* Package net, as far as main.go uses it.                                 *)
(***************************************************************************)
NilIP == [bytes |-> 0, fam |-> "none", val |-> 0]

NoNet == [err |-> TRUE]

\* 8*len(ip) in the scaled-down address space.
AddrBits(bytes) == IF bytes = 4 THEN 1 ELSE 2

RECURSIVE Pow2(_)
Pow2(n) == IF n = 0 THEN 1 ELSE 2 * Pow2(n - 1)

\* net.ParseIP: the 16-byte form of a literal, the nil IP for anything else.
ParseIP(s) ==
    IF Len(s) # 1 THEN NilIP
    ELSE CASE s[1] = "a" -> [bytes |-> 16, fam |-> "v4", val |-> 0]
           [] s[1] = "b" -> [bytes |-> 16, fam |-> "v4", val |-> 1]
           [] s[1] = "p" -> [bytes |-> 16, fam |-> "v6", val |-> 2]
           [] s[1] = "q" -> [bytes |-> 16, fam |-> "v6", val |-> 3]
           [] OTHER -> NilIP

\* net.IP.To4: the 4-byte form of an IPv4 address, nil otherwise.
To4(ip) ==
    IF ip.fam = "v4" THEN [bytes |-> 4, fam |-> "v4", val |-> ip.val] ELSE NilIP

\* net.CIDRMask(ones, bits) applied to ip: the leading `ones` bits are kept.
MaskIP(ip, ones) ==
    LET low == Pow2(AddrBits(ip.bytes) - ones)
    IN  [ip EXCEPT !.val = (ip.val \div low) * low]

Digits == {"0", "1", "2", "3"}

DigitValue(c) == CASE c = "0" -> 0 [] c = "1" -> 1 [] c = "2" -> 2 [] OTHER -> 3

\* dtoi over a text of digits.
RECURSIVE Dtoi(_)
Dtoi(s) ==
    IF Len(s) = 0 THEN 0
    ELSE 10 * Dtoi(SubSeq(s, 1, Len(s) - 1)) + DigitValue(s[Len(s)])

\* strings.IndexByte: the first position of c in s, 0 when absent.
IndexByte(s, c) ==
    IF \E i \in 1..Len(s) : s[i] = c
    THEN CHOOSE i \in 1..Len(s) : s[i] = c /\ \A j \in 1..(i - 1) : s[j] # c
    ELSE 0

\* net.ParseCIDR: address "/" prefix length; the network keeps the family's
\* own length (4 bytes for an IPv4 literal) and the masked base address.
ParseCIDR(s) ==
    LET i == IndexByte(s, "/")
        addr == SubSeq(s, 1, i - 1)
        mask == SubSeq(s, i + 1, Len(s))
        ip16 == ParseIP(addr)
        ip == IF To4(ip16) # NilIP THEN To4(ip16) ELSE ip16
    IN  IF i = 0 \/ ip16 = NilIP THEN NoNet
        ELSE IF Len(mask) = 0 \/ \E k \in 1..Len(mask) : mask[k] \notin Digits
             THEN NoNet
        ELSE IF Dtoi(mask) > AddrBits(ip.bytes) THEN NoNet
        ELSE [err |-> FALSE, IP |-> MaskIP(ip, Dtoi(mask)), ones |-> Dtoi(mask)]

\* net.IPNet.Contains
Contains(n, ip) ==
    LET x == IF To4(ip) # NilIP THEN To4(ip) ELSE ip
        low == Pow2(AddrBits(n.IP.bytes) - n.ones)
    IN  /\ x.bytes = n.IP.bytes
        /\ (x.val \div low) = (n.IP.val \div low)

\* strings.Split(s, ","): always at least one item.
RECURSIVE Split(_)
Split(s) ==
    LET i == IndexByte(s, ",")
    IN  IF i = 0 THEN <<s>>
        ELSE <<SubSeq(s, 1, i - 1)>> \o Split(SubSeq(s, i + 1, Len(s)))

\* strings.TrimSpace
RECURSIVE TrimSpace(_)
TrimSpace(s) ==
    IF Len(s) = 0 THEN s
    ELSE IF s[1] = " " THEN TrimSpace(Tail(s))
    ELSE IF s[Len(s)] = " " THEN TrimSpace(SubSeq(s, 1, Len(s) - 1))
    ELSE s

(***************************************************************************)
(* main.go                                                                 *)
(***************************************************************************)
netFromIPOrCIDR(s) ==
    LET cidr == ParseCIDR(s)
        ip16 == ParseIP(s)
        ip == IF To4(ip16) # NilIP THEN To4(ip16) ELSE ip16
    IN  IF ~cidr.err THEN cidr
        ELSE IF ip16 = NilIP THEN NoNet
        ELSE [err |-> FALSE, IP |-> ip, ones |-> AddrBits(ip.bytes)]

\* AddFromString without its early return: the nil network of a failed parse
\* is appended too.
AddFromStringListKeepsNil(cidrs, s) ==
    LET r == netFromIPOrCIDR(s)
    IN  IF r.err THEN Append(cidrs, [IP |-> NilIP, ones |-> 0])
        ELSE Append(cidrs, [IP |-> r.IP, ones |-> r.ones])

\* The new value of t.trustedCIDRs.
AddFromStringList(cidrs, s) ==
    LET r == netFromIPOrCIDR(s)
    IN  IF r.err THEN cidrs ELSE Append(cidrs, [IP |-> r.IP, ones |-> r.ones])

\* The error AddFromString returns.
AddFromStringErr(cidrs, s) == "nil"

\* IsIPTrusted keeping the last match instead of returning the first.
RECURSIVE IsIPTrustedLastMatch(_, _, _)
IsIPTrustedLastMatch(cidrs, ip, i) ==
    IF i > Len(cidrs) THEN 0
    ELSE LET later == IsIPTrustedLastMatch(cidrs, ip, i + 1)
         IN  IF later # 0 THEN later
             ELSE IF Contains(cidrs[i], ip) THEN i ELSE 0

\* The position of the returned *net.IPNet in cidrs, 0 for nil.
RECURSIVE IsIPTrustedFrom(_, _, _)
IsIPTrustedFrom(cidrs, ip, i) ==
    IF i > Len(cidrs) THEN 0
    ELSE IF Contains(cidrs[i], ip) THEN i
    ELSE IsIPTrustedFrom(cidrs, ip, i + 1)

IsIPTrusted(cidrs, ip) == IsIPTrustedFrom(cidrs, ip, 1)

RECURSIVE headerItems(_)
headerItems(items) ==
    IF Len(items) = 0 THEN <<>>
    ELSE <<ParseIP(TrimSpace(Head(items)))>> \o headerItems(Tail(items))

\* headerToIPs without the test for an empty header.
headerToIPsNoEmptyTest(headerValue) == headerItems(Split(headerValue))

headerToIPs(headerValue) ==
    LET items == Split(headerValue)
    IN  IF Len(items) = 1 /\ TrimSpace(items[1]) = <<>> THEN <<>>
        ELSE headerItems(items)

\* The loop with the untrusted address dropped instead of kept.
RECURSIVE walkDropsUntrusted(_, _, _, _)
walkDropsUntrusted(cidrs, ips, idx, rv) ==
    IF idx < 1 THEN [panic |-> TRUE, rv |-> <<>>]
    ELSE IF ips[idx] = NilIP THEN [panic |-> FALSE, rv |-> rv]
    ELSE IF IsIPTrusted(cidrs, ips[idx]) # 0
         THEN walkDropsUntrusted(cidrs, ips, idx - 1, Append(rv, ips[idx]))
    ELSE [panic |-> FALSE, rv |-> rv]

\* The loop with the append moved before the nil test.
RECURSIVE walkAppendsFirst(_, _, _, _)
walkAppendsFirst(cidrs, ips, idx, rv) ==
    IF idx < 1 THEN [panic |-> TRUE, rv |-> <<>>]
    ELSE IF ips[idx] = NilIP THEN [panic |-> FALSE, rv |-> Append(rv, ips[idx])]
    ELSE IF IsIPTrusted(cidrs, ips[idx]) # 0
         THEN walkAppendsFirst(cidrs, ips, idx - 1, Append(rv, ips[idx]))
    ELSE [panic |-> FALSE, rv |-> Append(rv, ips[idx])]

\* The loop with the nil test dropped: an unparseable entry is looked up
\* like an address, found untrusted and kept.
RECURSIVE walkNoNilTest(_, _, _, _)
walkNoNilTest(cidrs, ips, idx, rv) ==
    IF idx < 1 THEN [panic |-> TRUE, rv |-> <<>>]
    ELSE IF IsIPTrusted(cidrs, ips[idx]) # 0
         THEN walkNoNilTest(cidrs, ips, idx - 1, Append(rv, ips[idx]))
    ELSE [panic |-> FALSE, rv |-> Append(rv, ips[idx])]

\* The loop of filterOutIPsFromUntrustedSources; idx counts from 1, so the
\* index before the first element is 0 and reading there panics.
RECURSIVE walk(_, _, _, _)
walk(cidrs, ips, idx, rv) ==
    IF idx < 1 THEN [panic |-> TRUE, rv |-> <<>>]
    ELSE IF ips[idx] = NilIP THEN [panic |-> FALSE, rv |-> rv]
    ELSE IF IsIPTrusted(cidrs, ips[idx]) # 0
         THEN walk(cidrs, ips, idx - 1, Append(rv, ips[idx]))
    ELSE [panic |-> FALSE, rv |-> Append(rv, ips[idx])]

filterOutIPsFromUntrustedSources(cidrs, remoteAddr, header) ==
    LET ips == Append(headerToIPs(header), remoteAddr)
    IN  walk(cidrs, ips, Len(ips), <<>>)

\* trustedIPs[len(trustedIPs)-1] panics on an empty slice.
DeduceClientIP(cidrs, remoteAddr, header) ==
    LET r == filterOutIPsFromUntrustedSources(cidrs, remoteAddr, header)
    IN  IF r.panic \/ Len(r.rv) = 0
        THEN [panic |-> TRUE, trustedIPs |-> r.rv, ip |-> NilIP]
        ELSE [panic |-> FALSE, trustedIPs |-> r.rv, ip |-> r.rv[Len(r.rv)]]

(***************************************************************************)
(* Inputs                                                                  *)
(***************************************************************************)
SpecStrings ==
    { <<"a">>, <<"b", "/", "0">>, <<"p">>, <<"q", "/", "1">>,
      <<"a", "/", "2">>, <<"x">> }

\* What a proxy or a client may put between two commas: an address, an
\* address padded with blanks, nothing, a blank, text that is no address.
HeaderItems == { <<"a">>, <<" ", "b", " ">>, <<>>, <<" ">>, <<"a", "b">> }

\* strings.Join(items, ",")
RECURSIVE Join(_)
Join(items) ==
    IF Len(items) = 1 THEN items[1]
    ELSE items[1] \o <<",">> \o Join(Tail(items))

Headers ==
    { Join(items) : items \in UNION { [1..n -> HeaderItems] : n \in 1..MaxHeaderItems } }

Addresses == { ParseIP(<<c>>) : c \in {"a", "b", "p"} }

RemoteAddrs == Addresses \cup {NilIP}

Idle == [op |-> "idle", panic |-> FALSE]

(***************************************************************************)
(* The state machine: New, then calls made one at a time.                  *)
(***************************************************************************)
Init ==
    /\ trustedCIDRs = <<>>
    /\ calls = <<>>
    /\ last = Idle

AddFromString ==
    /\ last = Idle
    /\ Len(calls) < MaxAdds
    /\ \E s \in SpecStrings :
        /\ trustedCIDRs' = AddFromStringList(trustedCIDRs, s)
        /\ calls' = Append(calls, s)
        /\ last' = [op |-> "AddFromString", panic |-> FALSE, s |-> s,
                    err |-> AddFromStringErr(trustedCIDRs, s)]

CallIsIPTrusted ==
    /\ last = Idle
    /\ \E ip \in Addresses :
        last' = [op |-> "IsIPTrusted", panic |-> FALSE, ip |-> ip,
                 match |-> IsIPTrusted(trustedCIDRs, ip)]
    /\ UNCHANGED <<trustedCIDRs, calls>>

CallHeaderToIPs ==
    /\ last = Idle
    /\ \E h \in Headers :
        last' = [op |-> "headerToIPs", panic |-> FALSE, header |-> h,
                 rv |-> headerToIPs(h)]
    /\ UNCHANGED <<trustedCIDRs, calls>>

CallFilter ==
    /\ last = Idle
    /\ \E h \in Headers, r \in RemoteAddrs :
        LET out == filterOutIPsFromUntrustedSources(trustedCIDRs, r, h)
        IN  last' = [op |-> "filter", panic |-> out.panic, header |-> h,
                     remoteAddr |-> r, rv |-> out.rv]
    /\ UNCHANGED <<trustedCIDRs, calls>>

CallDeduceClientIP ==
    /\ last = Idle
    /\ \E h \in Headers, r \in RemoteAddrs :
        LET out == DeduceClientIP(trustedCIDRs, r, h)
        IN  last' = [op |-> "DeduceClientIP", panic |-> out.panic, header |-> h,
                     remoteAddr |-> r, trustedIPs |-> out.trustedIPs,
                     ip |-> out.ip]
    /\ UNCHANGED <<trustedCIDRs, calls>>

\* The call returns to its caller; a panic is not recovered.
Return ==
    /\ last # Idle
    /\ ~last.panic
    /\ last' = Idle
    /\ UNCHANGED <<trustedCIDRs, calls>>

Next ==
    \/ AddFromString
    \/ CallIsIPTrusted
    \/ CallHeaderToIPs
    \/ CallFilter
    \/ CallDeduceClientIP
    \/ Return

Spec == Init /\ [][Next]_vars

(***************************************************************************)
(* Vocabulary of the properties.                                           *)
(***************************************************************************)
Reverse(s) == [i \in 1..Len(s) |-> s[Len(s) + 1 - i]]

\* Some added range contains ip.
Trusted(ip) == \E i \in 1..Len(trustedCIDRs) : Contains(trustedCIDRs[i], ip)

\* Header candidates followed by the peer, for the call recorded in `last`.
Chain == Append(headerToIPs(last.header), last.remoteAddr)

\* Every element of the chain ch after position k is parseable and trusted.
TrustedAfter(ch, k) ==
    \A j \in (k + 1)..Len(ch) : ch[j] # NilIP /\ Trusted(ch[j])

\* The specification text denotes a CIDR or a bare address.
WellFormed(s) == ~ParseCIDR(s).err \/ ParseIP(s) # NilIP

\* The ranges of the well-formed specifications of a call log, in call order.
RECURSIVE RangesOf(_)
RangesOf(log) ==
    IF Len(log) = 0 THEN <<>>
    ELSE LET r == netFromIPOrCIDR(log[Len(log)])
             before == RangesOf(SubSeq(log, 1, Len(log) - 1))
         IN  IF WellFormed(log[Len(log)])
             THEN Append(before, [IP |-> r.IP, ones |-> r.ones])
             ELSE before

\* The segments of a header, read off the comma positions.
Commas(h) == {i \in 1..Len(h) : h[i] = ","}

CommaAt(h, k) ==
    IF k = 0 THEN 0
    ELSE IF k > Cardinality(Commas(h)) THEN Len(h) + 1
    ELSE CHOOSE i \in Commas(h) : Cardinality({j \in Commas(h) : j < i}) = k - 1

\* The candidate the k-th segment stands for: its address when the segment is
\* one address literal surrounded by blanks only, the unparseable marker
\* otherwise.
Candidate(h, k) ==
    LET inside == {i \in 1..Len(h) : CommaAt(h, k - 1) < i /\ i < CommaAt(h, k)}
        solid == {i \in inside : h[i] # " "}
    IN  IF Cardinality(solid) = 1
        THEN ParseIP(<<h[CHOOSE i \in solid : TRUE]>>)
        ELSE NilIP

(***************************************************************************)
(* Properties.                                                             *)
(***************************************************************************)

\* C1: when some element of the chain is parseable and not trusted while
\* every element after it is parseable and trusted, DeduceClientIP returns
\* exactly that element (the first untrusted hop counted from the peer).
C1_FirstUntrustedHop ==
    last.op = "DeduceClientIP" =>
        LET ch == Chain
        IN  \A k \in 1..Len(ch) :
                (ch[k] # NilIP /\ ~Trusted(ch[k]) /\ TrustedAfter(ch, k))
                    => (~last.panic /\ last.ip = ch[k])

\* A call that walked past the peer and one header entry and stopped at an
\* untrusted header entry.
C1_Witness ==
    /\ last.op = "DeduceClientIP"
    /\ ~last.panic
    /\ LET ch == Chain
       IN  \E k \in 1..(Len(ch) - 2) :
               ch[k] # NilIP /\ ~Trusted(ch[k]) /\ TrustedAfter(ch, k)
                   /\ last.ip = ch[k]

\* C2: when the header yields zero candidates, DeduceClientIP returns the
\* (parseable) peer whether or not the store trusts it.
C2_EmptyHeaderReturnsPeer ==
    (last.op = "DeduceClientIP" /\ headerToIPs(last.header) = <<>>
        /\ last.remoteAddr # NilIP)
        => (~last.panic /\ last.ip = last.remoteAddr)

\* C3: when every header candidate and the peer are parseable and trusted,
\* the walk ends normally without reading before the first element and the
\* deduced client is the leftmost header entry.
C3_FullExhaustion ==
    (last.op = "DeduceClientIP" /\ Len(Chain) > 1 /\ TrustedAfter(Chain, 0))
        => (~last.panic /\ last.ip = Chain[1])

\* C4 as stated: an unparseable header entry reached by the walk is the last
\* element of the returned chain, hence the deduced client.
C4_UnparseableIncluded ==
    last.op = "DeduceClientIP" =>
        LET ch == Chain
        IN  \A k \in 1..(Len(ch) - 1) :
                (ch[k] = NilIP /\ TrustedAfter(ch, k)) =>
                    /\ ~last.panic
                    /\ last.trustedIPs # <<>>
                    /\ last.trustedIPs[Len(last.trustedIPs)] = ch[k]
                    /\ last.ip = ch[k]

\* C4 amended: an unparseable header entry reached by the walk stops the
\* walk and is left out of the returned chain; the last appended element,
\* hence the deduced client, is the element right after it.
C4_UnparseableStopsExcluded ==
    last.op = "DeduceClientIP" =>
        LET ch == Chain
        IN  \A k \in 1..(Len(ch) - 1) :
                (ch[k] = NilIP /\ TrustedAfter(ch, k)) =>
                    /\ ~last.panic
                    /\ Len(last.trustedIPs) = Len(ch) - k
                    /\ last.trustedIPs[Len(last.trustedIPs)] = ch[k + 1]
                    /\ last.ip = ch[k + 1]

\* The walk passed the peer and a trusted header entry and then met an
\* unparseable one.
C4_Witness ==
    /\ last.op = "DeduceClientIP"
    /\ LET ch == Chain
       IN  \E k \in 1..(Len(ch) - 2) :
               ch[k] = NilIP /\ TrustedAfter(ch, k) /\ last.ip = ch[k + 1]

\* C5: with a nil peer the call returns normally, the chain is the peer slot
\* alone and the deduced client is that slot.
C5_NilPeerReturns ==
    (last.op = "DeduceClientIP" /\ last.remoteAddr = NilIP) =>
        /\ ~last.panic
        /\ last.trustedIPs = <<NilIP>>
        /\ last.ip = NilIP

\* C6: a malformed specification is accepted without an error and changes
\* nothing: the trusted list is the ranges of the well-formed specifications
\* in call order, and IsIPTrusted answers from those alone.
C6_MalformedIsNoOp ==
    /\ trustedCIDRs = RangesOf(calls)
    /\ last.op = "AddFromString" => last.err = "nil"
    /\ last.op = "IsIPTrusted" =>
          last.match = IsIPTrusted(RangesOf(SelectSeq(calls, WellFormed)), last.ip)

\* A malformed specification was added before a well-formed one, and a
\* query matched the latter.
C6_Witness ==
    /\ Len(calls) = 2
    /\ ~WellFormed(calls[1])
    /\ WellFormed(calls[2])
    /\ last.op = "IsIPTrusted"
    /\ last.match = 1

\* C7: IsIPTrusted returns nil exactly when no added range contains the
\* address, and otherwise the earliest-added range that contains it.
C7_FirstMatch ==
    last.op = "IsIPTrusted" =>
        LET hits == {i \in 1..Len(trustedCIDRs) : Contains(trustedCIDRs[i], last.ip)}
        IN  /\ last.match = 0 <=> hits = {}
            /\ hits # {} => (last.match \in hits /\ \A i \in hits : last.match <= i)

\* Two different added ranges contain the queried address.
C7_Witness ==
    /\ last.op = "IsIPTrusted"
    /\ Len(trustedCIDRs) = 2
    /\ trustedCIDRs[1] # trustedCIDRs[2]
    /\ Contains(trustedCIDRs[1], last.ip)
    /\ Contains(trustedCIDRs[2], last.ip)
    /\ last.match = 1

\* C8: headerToIPs yields the empty sequence exactly for a single segment of
\* blanks; otherwise one candidate per comma-separated segment, in order, an
\* unparseable segment keeping its position as a marker.
C8_HeaderCandidates ==
    last.op = "headerToIPs" =>
        LET h == last.header
            blank == Commas(h) = {} /\ \A i \in 1..Len(h) : h[i] = " "
        IN  /\ last.rv = <<>> <=> blank
            /\ ~blank =>
                  /\ Len(last.rv) = Cardinality(Commas(h)) + 1
                  /\ \A k \in 1..Len(last.rv) : last.rv[k] = Candidate(h, k)

\* A padded address followed by an unparseable marker.
C8_Witness ==
    /\ last.op = "headerToIPs"
    /\ Len(last.rv) = 2
    /\ last.header[1] = " "
    /\ last.rv[1] # NilIP
    /\ last.rv[2] = NilIP

\* The start of the maximal suffix of the chain whose elements, except the
\* furthest-back one, are all trusted.
SuffixStart(ch) == CHOOSE k \in 1..Len(ch) :
    TrustedAfter(ch, k) /\ \A j \in 1..(k - 1) : ~TrustedAfter(ch, j)

\* C9: the returned chain is, peer first, the maximal suffix of Chain in
\* which every element but the furthest-back one is trusted, and
\* DeduceClientIP returns the furthest-back element of that suffix.
C9_MaximalTrustedSuffix ==
    last.op = "DeduceClientIP" =>
        LET ch == Chain
            k == SuffixStart(ch)
        IN  /\ ~last.panic
            /\ last.trustedIPs = Reverse(SubSeq(ch, k, Len(ch)))
            /\ last.ip = ch[k]

\* C10: the returned chain holds no unparseable entry; when the walk meets
\* an unparseable header entry the chain ends at the last parseable element
\* before it, so the deduced client is a parseable address.
C10_NoNilInChain ==
    /\ (last.op = "filter" /\ ~last.panic) =>
          \A i \in 1..Len(last.rv) : last.rv[i] # NilIP
    /\ last.op \in {"filter", "DeduceClientIP"} =>
          LET ch == Chain
          IN  \A k \in 1..(Len(ch) - 1) :
                  (ch[k] = NilIP /\ TrustedAfter(ch, k)) =>
                      /\ ~last.panic
                      /\ last.op = "filter" =>
                            last.rv = Reverse(SubSeq(ch, k + 1, Len(ch)))
                      /\ last.op = "DeduceClientIP" => last.ip # NilIP

\* A bogus single-segment header behind a trusted peer: the chain is the
\* peer alone.
C10_Witness ==
    /\ last.op = "filter"
    /\ Len(Chain) = 2
    /\ Chain[1] = NilIP
    /\ Trusted(last.remoteAddr)
    /\ last.rv = <<last.remoteAddr>>

====
